---- MODULE Spec2Model ----
(***************************************************************************)
(* Forex feature-engineering pipeline (src/data/feature_engineering.py).   *)
(*                                                                         *)
(* A table (pandas DataFrame) is a function from column names to columns;  *)
(* a column is a sequence of cells, row t (0-based) at index t+1.          *)
(* A float cell is an extended rational <<n, d>> in lowest terms with      *)
(* d >= 0:  <<n, 1>> an integer, <<1, 0>> +inf, <<-1, 0>> -inf and         *)
(* <<0, 0>> NaN, so that x/0 and 0/0 behave as IEEE division does.         *)
(* A finite value that is not rational (a square root, a logarithm, an     *)
(* exponentially weighted mean whose denominator grows with the row) is    *)
(* kept as the term <<op, params, operands>> over its exact operands.      *)
(* Arithmetic is exact: float round-off is outside the model.              *)
(***************************************************************************)
EXTENDS Integers, Sequences, FiniteSets, TLC

VARIABLES
    pc,        \* control location
    heap,      \* DataFrame objects: object id -> table
    df,        \* process_single_file's variable df: the id of the object it names
    horizon,   \* forecast_horizon passed to add_target_variables
    raised,    \* the exception in flight, "none" when there is none
    tfi,       \* process_all_data: position in INPUT_DIRS
    pri,       \* process_all_data: position in CURRENCY_PAIRS
    results,   \* process_all_data: the list results
    log,       \* lines printed so far
    files,     \* the input directory tree as far as it has been looked at
    outputs,   \* the CSV files written
    end_date,          \* download_hourly_data_chunked: the time of the run
    current_end,       \* download_hourly_data_chunked: end of the chunk at hand
    current_start,     \* download_hourly_data_chunked: start of the chunk at hand
    chunks_downloaded, \* download_hourly_data_chunked: chunks that came with data
    requests           \* the <<start, end>> dates passed to yf.download so far

download == <<end_date, current_end, current_start, chunks_downloaded, requests>>

vars == <<pc, heap, df, horizon, raised, tfi, pri, results, log, files, outputs, download>>

-----------------------------------------------------------------------------
(* Configuration: src/data/feature_engineering.py:38-50                    *)

RSI_PERIOD == 14
MACD_FAST == 12
MACD_SLOW == 26
MACD_SIGNAL == 9
BB_PERIOD == 20
BB_STD == 2
ATR_PERIOD == 14
STOCH_PERIOD == 14
\* the value of 100 - 100 / (1 + rs) when rs is infinite
RSI_CEILING == 100
CCI_PERIOD == 20
WILLIAMS_PERIOD == 14
MOMENTUM_PERIOD == 10
LAG_PERIODS == <<1, 2, 3, 5, 7, 14, 21>>
MA_PERIODS == <<7, 14, 21, 50, 100, 200>>
RSI_LAGS == <<1, 3, 5>>
VOLATILITY_PERIODS == <<5, 10, 20>>
CUMULATIVE_PERIODS == <<3, 5, 10, 20>>
ROLLING_PERIODS == <<5, 10, 20>>
DEFAULT_HORIZON == 1

-----------------------------------------------------------------------------
(* datetime: src/data/download_forex_data.py:133-164.  A datetime is       *)
(* <<day, hour>>, the day counted from 2020-01-01                          *)

start_date == <<0, 0>>
max_days == 59

\* a > b on datetimes
Later(a, b) == a[1] > b[1] \/ (a[1] = b[1] /\ a[2] > b[2])
\* a - timedelta(days=k)
MinusDays(a, k) == <<a[1] - k, a[2]>>
\* max(a, b)
LaterOf(a, b) == IF Later(b, a) THEN b ELSE a
\* a.strftime('%Y-%m-%d'): the date, without the time of day
strftime(a) == a[1]

\* download_hourly_data_chunked has not been called
NoDownload ==
    /\ end_date = start_date
    /\ current_end = start_date
    /\ current_start = start_date
    /\ chunks_downloaded = 0
    /\ requests = <<>>

-----------------------------------------------------------------------------
(* float64 cells                                                           *)

NaN == <<0, 0>>
PosInf == <<1, 0>>
NegInf == <<-1, 0>>
Num(k) == <<k, 1>>

Abs(k) == IF k < 0 THEN -k ELSE k
Sgn(k) == IF k > 0 THEN 1 ELSE IF k < 0 THEN -1 ELSE 0

RECURSIVE Gcd(_, _)
Gcd(a, b) == IF b = 0 THEN a ELSE Gcd(b, a % b)

\* the float n/d: lowest terms, sign in the numerator; n/0 is an infinity or NaN
Norm(n, d) ==
    IF d = 0 THEN <<Sgn(n), 0>>
    ELSE LET g == Gcd(Abs(n), Abs(d))
         IN  <<Sgn(d) * (n \div g), Abs(d) \div g>>

IsTerm(x) == Len(x) = 3
IsNaN(x) == x = NaN
IsInf(x) == x = PosInf \/ x = NegInf
IsRat(x) == Len(x) = 2 /\ x[2] > 0
IsZero(x) == x = Num(0)

\* a finite real that is not kept as a rational
Term(op, params, operands) == <<op, params, operands>>

Neg(x) ==
    IF IsTerm(x) THEN Term("neg", <<>>, <<x>>)
    ELSE <<-x[1], x[2]>>

Add(x, y) ==
    IF IsNaN(x) \/ IsNaN(y) THEN NaN
    ELSE IF IsInf(x) THEN (IF IsInf(y) /\ y # x THEN NaN ELSE x)
    ELSE IF IsInf(y) THEN y
    ELSE IF IsTerm(x) \/ IsTerm(y)
         THEN (IF IsZero(x) THEN y
               ELSE IF IsZero(y) THEN x
               ELSE IF x = Neg(y) \/ y = Neg(x) THEN Num(0)
               ELSE Term("add", <<>>, <<x, y>>))
    ELSE Norm(x[1] * y[2] + y[1] * x[2], x[2] * y[2])

Sub(x, y) ==
    IF IsTerm(y)
    THEN (IF IsNaN(x) THEN NaN
          ELSE IF IsInf(x) THEN x
          ELSE IF x = y THEN Num(0)
          ELSE IF IsZero(x) THEN Neg(y)
          ELSE Term("sub", <<>>, <<x, y>>))
    ELSE IF IsTerm(x) /\ IsRat(y) /\ ~IsZero(y) THEN Term("sub", <<>>, <<x, y>>)
    ELSE Add(x, Neg(y))

Mul(x, y) ==
    IF IsNaN(x) \/ IsNaN(y) THEN NaN
    ELSE IF IsTerm(x) \/ IsTerm(y)
         THEN (IF IsZero(x) \/ IsZero(y) THEN Num(0)
               ELSE IF IsInf(x) THEN x
               ELSE IF IsInf(y) THEN y
               ELSE Term("mul", <<>>, <<x, y>>))
    ELSE Norm(x[1] * y[1], x[2] * y[2])

Div(x, y) ==
    IF IsNaN(x) \/ IsNaN(y) THEN NaN
    ELSE IF IsTerm(x) \/ IsTerm(y)
         THEN (IF IsZero(y) THEN PosInf
               ELSE IF IsInf(y) \/ IsZero(x) THEN Num(0)
               ELSE IF IsInf(x) THEN x
               ELSE Term("div", <<>>, <<x, y>>))
    ELSE IF y[1] < 0 THEN Norm(-(x[1] * y[2]), x[2] * (-y[1]))
    ELSE Norm(x[1] * y[2], x[2] * y[1])

\* x > y on floats; any comparison with NaN is False
Gt(x, y) ==
    /\ ~IsNaN(x)
    /\ ~IsNaN(y)
    /\ x[1] * y[2] > y[1] * x[2]

Lt(x, y) == Gt(y, x)

FAbs(x) == IF IsTerm(x) THEN Term("abs", <<>>, <<x>>) ELSE <<Abs(x[1]), x[2]>>

\* numpy/pandas max and min of two floats that skip NaN (DataFrame.max(axis=1))
MaxSkipNa(x, y) == IF IsNaN(x) THEN y ELSE IF IsNaN(y) THEN x ELSE IF Gt(y, x) THEN y ELSE x
MinSkipNa(x, y) == IF IsNaN(x) THEN y ELSE IF IsNaN(y) THEN x ELSE IF Lt(y, x) THEN y ELSE x

\* bool -> int (astype(int)); np.where(cond, a, b)
BoolInt(b) == IF b THEN Num(1) ELSE Num(0)
Where(b, x, y) == IF b THEN x ELSE y

-----------------------------------------------------------------------------
(* pandas Series operations                                                *)

\* a column as an explicit sequence of its cells
Col(s) == SubSeq(s, 1, Len(s))

Rows(s) == 0 .. (Len(s) - 1)
At(s, t) == s[t + 1]

\* Series.shift(k): row t holds the value of row t-k, NaN where there is none
shift(s, k) ==
    Col([i \in 1 .. Len(s) |-> IF i - k >= 1 /\ i - k <= Len(s) THEN s[i - k] ELSE NaN])

\* Series.pct_change(periods): s / s.shift(periods) - 1
pct_change(s, periods) ==
    LET sh == shift(s, periods)
    IN  Col([i \in 1 .. Len(s) |-> Sub(Div(s[i], sh[i]), Num(1))])

\* Series.diff(): s - s.shift(1)
diff(s) ==
    LET sh == shift(s, 1)
    IN  Col([i \in 1 .. Len(s) |-> Sub(s[i], sh[i])])

\* Series.rolling(window=w): row t has a window once w rows are there, and the
\* statistic F of it when the window holds w valid observations (min_periods = w;
\* NaN and infinities are not observations)
rolling(s, w, F(_)) ==
    Col([i \in 1 .. Len(s) |->
        IF i < w THEN NaN
        ELSE LET win == SubSeq(s, i - w + 1, i)
             IN  IF \E j \in 1 .. w : IsNaN(win[j]) \/ IsInf(win[j]) THEN NaN ELSE F(win)])

\* folds over the cells lo..hi of a window
RECURSIVE SumRange(_, _, _)
SumRange(win, lo, hi) ==
    IF lo > hi THEN Num(0)
    ELSE IF lo = hi THEN win[lo]
    ELSE LET mid == (lo + hi) \div 2
         IN  Add(SumRange(win, lo, mid), SumRange(win, mid + 1, hi))
Sum(win) == SumRange(win, 1, Len(win))

RECURSIVE MaxRange(_, _, _)
MaxRange(win, lo, hi) ==
    IF lo = hi THEN win[lo]
    ELSE LET mid == (lo + hi) \div 2
         IN  MaxSkipNa(MaxRange(win, lo, mid), MaxRange(win, mid + 1, hi))
RECURSIVE MinRange(_, _, _)
MinRange(win, lo, hi) ==
    IF lo = hi THEN win[lo]
    ELSE LET mid == (lo + hi) \div 2
         IN  MinSkipNa(MinRange(win, lo, mid), MinRange(win, mid + 1, hi))

Mean(win) == Div(Sum(win), Num(Len(win)))
Max(win) == MaxRange(win, 1, Len(win))
Min(win) == MinRange(win, 1, Len(win))
IsConstant(win) == \A j \in 1 .. Len(win) : win[j] = win[1]

\* sample standard deviation (ddof = 1): zero exactly on a constant window
Std(win) ==
    IF Len(win) < 2 THEN NaN
    ELSE IF IsConstant(win) THEN Num(0)
    ELSE Term("std", <<1>>, win)

\* np.mean(np.abs(x - x.mean()))
MeanAbsDev(win) ==
    LET m == Mean(win)
    IN  Mean(Col([j \in 1 .. Len(win) |-> FAbs(Sub(win[j], m))]))

rolling_mean(s, w) == rolling(s, w, Mean)
rolling_std(s, w) == rolling(s, w, Std)
rolling_min(s, w) == rolling(s, w, Min)
rolling_max(s, w) == rolling(s, w, Max)

\* Series.ewm(span, adjust=False).mean(): y[0] = x[0], y[t] = a*x[t] + (1-a)*y[t-1]
\* with a = 2/(span+1); a function of the rows up to t, equal to the common value
\* when they are all equal
ewm_mean(s, span) ==
    Col([i \in 1 .. Len(s) |->
        LET prefix == SubSeq(s, 1, i)
        IN  IF \A j \in 1 .. i : IsNaN(prefix[j]) THEN NaN
            ELSE IF IsConstant(prefix) THEN s[i]
            ELSE Term("ewm", <<span>>, prefix)])

\* np.log
Log(x) ==
    IF IsNaN(x) THEN NaN
    ELSE IF IsTerm(x) THEN Term("log", <<>>, <<x>>)
    ELSE IF x = PosInf THEN PosInf
    ELSE IF x[1] < 0 THEN NaN
    ELSE IF x[1] = 0 THEN NegInf
    ELSE IF x = Num(1) THEN Num(0)
    ELSE Term("log", <<>>, <<x>>)

\* np.where(x > y, a, b) where the order of two terms is not computed
WhereGt(x, y, a, b) ==
    IF IsTerm(x) \/ IsTerm(y)
    THEN (IF x = y THEN b ELSE Term("where_gt", <<a, b>>, <<x, y>>))
    ELSE Where(Gt(x, y), a, b)

\* elementwise binary and unary operations on columns of one table
Map2(Op(_, _), a, b) == Col([i \in 1 .. Len(a) |-> Op(a[i], b[i])])
Map1(Op(_), a) == Col([i \in 1 .. Len(a) |-> Op(a[i])])
Const(s, x) == Col([i \in 1 .. Len(s) |-> x])

-----------------------------------------------------------------------------
(* Technical indicators: src/data/feature_engineering.py:56-130            *)

\* calculate_rsi that leaves the index undefined where the average loss is zero
calculate_rsi_undefined_on_zero_loss(close, period) ==
    LET delta == diff(close)
        up    == Col([i \in 1 .. Len(close) |-> Where(Gt(delta[i], Num(0)), delta[i], Num(0))])
        down  == Col([i \in 1 .. Len(close) |-> Neg(Where(Lt(delta[i], Num(0)), delta[i], Num(0)))])
        gain  == rolling_mean(up, period)
        loss  == rolling_mean(down, period)
    IN  Col([i \in 1 .. Len(close) |->
                IF IsZero(loss[i]) THEN NaN
                ELSE Sub(Num(100), Div(Num(100), Add(Num(1), Div(gain[i], loss[i]))))])

calculate_rsi(close, period) ==
    LET delta == diff(close)
        up    == Col([i \in 1 .. Len(close) |-> Where(Gt(delta[i], Num(0)), delta[i], Num(0))])
        down  == Col([i \in 1 .. Len(close) |-> Neg(Where(Lt(delta[i], Num(0)), delta[i], Num(0)))])
        gain  == rolling_mean(up, period)
        loss  == rolling_mean(down, period)
        rs    == Map2(Div, gain, loss)
    IN  Col([i \in 1 .. Len(close) |-> Sub(Num(100), Div(Num(100), Add(Num(1), rs[i])))])

\* MACD line, signal line and histogram; element k of the result is column k
calculate_macd(close, fast, slow, signal) ==
    LET ema_fast == ewm_mean(close, fast)
        ema_slow == ewm_mean(close, slow)
        macd_line == Map2(Sub, ema_fast, ema_slow)
        signal_line ==
            Col([i \in 1 .. Len(close) |->
                IF IsRat(macd_line[i]) /\ IsConstant(SubSeq(macd_line, 1, i))
                THEN macd_line[i]
                ELSE Term("ewm_macd", <<fast, slow, signal>>, SubSeq(close, 1, i))])
    IN  <<macd_line, signal_line, Map2(Sub, macd_line, signal_line)>>

\* upper band, middle band, lower band, width, position
calculate_bollinger_bands(close, period, std_dev) ==
    LET sma == rolling_mean(close, period)
        std == rolling_std(close, period)
        upper_band == Col([i \in 1 .. Len(close) |-> Add(sma[i], Mul(std[i], Num(std_dev)))])
        lower_band == Col([i \in 1 .. Len(close) |-> Sub(sma[i], Mul(std[i], Num(std_dev)))])
        bb_width == Col([i \in 1 .. Len(close) |-> Div(Sub(upper_band[i], lower_band[i]), sma[i])])
        bb_position == Col([i \in 1 .. Len(close) |->
                           Div(Sub(close[i], lower_band[i]), Sub(upper_band[i], lower_band[i]))])
    IN  <<upper_band, sma, lower_band, bb_width, bb_position>>

true_range(high, low, close) ==
    LET prev == shift(close, 1)
    IN  Col([i \in 1 .. Len(close) |->
            MaxSkipNa(MaxSkipNa(Sub(high[i], low[i]), FAbs(Sub(high[i], prev[i]))),
                      FAbs(Sub(low[i], prev[i])))])

calculate_atr(high, low, close, period) ==
    rolling_mean(true_range(high, low, close), period)

\* %K and %D
calculate_stochastic(high, low, close, period) ==
    LET lowest_low == rolling_min(low, period)
        highest_high == rolling_max(high, period)
        stoch_k == Col([i \in 1 .. Len(close) |->
                       Div(Mul(Num(100), Sub(close[i], lowest_low[i])),
                           Sub(highest_high[i], lowest_low[i]))])
    IN  <<stoch_k, rolling_mean(stoch_k, 3)>>

calculate_cci(high, low, close, period) ==
    LET tp == Col([i \in 1 .. Len(close) |-> Div(Add(Add(high[i], low[i]), close[i]), Num(3))])
        sma_tp == rolling_mean(tp, period)
        mad == rolling(tp, period, MeanAbsDev)
    IN  Col([i \in 1 .. Len(close) |-> Div(Sub(tp[i], sma_tp[i]), Mul(<<3, 200>>, mad[i]))])

calculate_williams_r(high, low, close, period) ==
    LET highest_high == rolling_max(high, period)
        lowest_low == rolling_min(low, period)
    IN  Col([i \in 1 .. Len(close) |->
            Div(Mul(Num(-100), Sub(highest_high[i], close[i])),
                Sub(highest_high[i], lowest_low[i]))])

calculate_momentum(close, period) == Map2(Sub, close, shift(close, period))

calculate_roc(close, period) ==
    LET prev == shift(close, period)
    IN  Col([i \in 1 .. Len(close) |-> Mul(Div(Sub(close[i], prev[i]), prev[i]), Num(100))])

-----------------------------------------------------------------------------
(* DataFrame: index labels and named columns                               *)

Table(index, col) == [index |-> index, col |-> col]
NRows(t) == Len(t.index)
Columns(t) == DOMAIN t.col
HasCol(t, c) == c \in DOMAIN t.col

\* df[name] = column  (adds the column, or replaces it in place)
SetCol(t, name, column) == Table(t.index, (name :> Col(column)) @@ t.col)

\* a run of such assignments: new maps each assigned name to its column
WithCols(t, new) == Table(t.index, new @@ t.col)

-----------------------------------------------------------------------------
(* Column names built from a period: f'SMA_{period}'                       *)

Name(prefix, period) == prefix \o ToString(period)

\* for period in periods: t = Body(t, period), in list order
RECURSIVE ForEach(_, _, _, _)
ForEach(Body(_, _), t, periods, k) ==
    IF k > Len(periods) THEN t
    ELSE ForEach(Body, Body(t, periods[k]), periods, k + 1)

-----------------------------------------------------------------------------
(* add_price_features: src/data/feature_engineering.py:189-225             *)

add_volatility(t, period) ==
    SetCol(t, Name("Volatility_", period), rolling_std(t.col["Return"], period))

add_price_features(t) ==
    LET O == t.col["Open"]
        H == t.col["High"]
        L == t.col["Low"]
        C == t.col["Close"]
        prev == shift(C, 1)
        N == 1 .. Len(C)
        range == Map2(Sub, H, L)
        body == Col([i \in N |-> FAbs(Sub(C[i], O[i]))])
        gap == Map2(Sub, O, prev)
        t1 == WithCols(t,
                ("Return" :> pct_change(C, 1))
             @@ ("Log_Return" :> Col([i \in N |-> Log(Div(C[i], prev[i]))]))
             @@ ("Price_Change" :> Map2(Sub, C, O))
             @@ ("Price_Change_Percent" :>
                    Col([i \in N |-> Mul(Div(Sub(C[i], O[i]), O[i]), Num(100))]))
             @@ ("Range" :> range)
             @@ ("Body" :> body)
             @@ ("Body_Percent" :> Map2(Div, body, range))
             @@ ("Upper_Shadow" :> Col([i \in N |-> Sub(H[i], MaxSkipNa(O[i], C[i]))]))
             @@ ("Lower_Shadow" :> Col([i \in N |-> Sub(MinSkipNa(O[i], C[i]), L[i])]))
             @@ ("Candle_Color" :> Col([i \in N |-> Where(Gt(C[i], O[i]), Num(1), Num(0))]))
             @@ ("Gap" :> gap)
             @@ ("Gap_Percent" :> Col([i \in N |-> Mul(Div(gap[i], prev[i]), Num(100))])))
        t2 == ForEach(add_volatility, t1, VOLATILITY_PERIODS, 1)
    IN  WithCols(t2,
                ("HL_Ratio" :> Map2(Div, H, L))
             @@ ("Close_Position" :> Col([i \in N |-> Div(Sub(C[i], L[i]), Sub(H[i], L[i]))])))

-----------------------------------------------------------------------------
(* add_technical_indicators: src/data/feature_engineering.py:137-186       *)

\* one pass of the loop over MA_PERIODS
add_moving_average(t, period) ==
    IF NRows(t) > period
    THEN LET C == t.col["Close"]
             sma == rolling_mean(C, period)
         IN  WithCols(t,
                ((Name("SMA_", period)) :> sma)
             @@ ((Name("EMA_", period)) :> ewm_mean(C, period))
             @@ ((Name("Close_vs_SMA_", period)) :>
                    Col([i \in 1 .. Len(C) |-> Mul(Sub(Div(C[i], sma[i]), Num(1)), Num(100))])))
    ELSE t

add_crossover(t, short, long) ==
    IF HasCol(t, Name("SMA_", short)) /\ HasCol(t, Name("SMA_", long))
    THEN LET a == t.col[Name("SMA_", short)]
             b == t.col[Name("SMA_", long)]
         IN  SetCol(t, "MA_" \o ToString(short) \o "_" \o ToString(long) \o "_crossover",
                    Col([i \in 1 .. Len(a) |-> Where(Gt(a[i], b[i]), Num(1), Num(-1))]))
    ELSE t

add_technical_indicators(t) ==
    LET H == t.col["High"]
        L == t.col["Low"]
        C == t.col["Close"]
        N == 1 .. Len(C)
        rsi == calculate_rsi(C, RSI_PERIOD)
        macd == calculate_macd(C, MACD_FAST, MACD_SLOW, MACD_SIGNAL)
        bb == calculate_bollinger_bands(C, BB_PERIOD, BB_STD)
        atr == calculate_atr(H, L, C, ATR_PERIOD)
        stoch == calculate_stochastic(H, L, C, STOCH_PERIOD)
        t1 == WithCols(t,
                ("RSI" :> rsi)
             @@ ("RSI_overbought" :> Col([i \in N |-> BoolInt(Gt(rsi[i], Num(70)))]))
             @@ ("RSI_oversold" :> Col([i \in N |-> BoolInt(Lt(rsi[i], Num(30)))]))
             @@ ("MACD" :> macd[1])
             @@ ("MACD_signal" :> macd[2])
             @@ ("MACD_histogram" :> macd[3])
             @@ ("MACD_crossover" :>
                    Col([i \in N |-> WhereGt(macd[1][i], macd[2][i], Num(1), Num(-1))]))
             @@ ("BB_upper" :> bb[1])
             @@ ("BB_middle" :> bb[2])
             @@ ("BB_lower" :> bb[3])
             @@ ("BB_width" :> bb[4])
             @@ ("BB_position" :> bb[5])
             @@ ("ATR" :> atr)
             @@ ("ATR_percent" :> Col([i \in N |-> Mul(Div(atr[i], C[i]), Num(100))]))
             @@ ("Stoch_K" :> stoch[1])
             @@ ("Stoch_D" :> stoch[2])
             @@ ("CCI" :> calculate_cci(H, L, C, CCI_PERIOD))
             @@ ("Williams_R" :> calculate_williams_r(H, L, C, WILLIAMS_PERIOD))
             @@ ("Momentum_10" :> calculate_momentum(C, MOMENTUM_PERIOD))
             @@ ("ROC_10" :> calculate_roc(C, MOMENTUM_PERIOD)))
        t2 == ForEach(add_moving_average, t1, MA_PERIODS, 1)
    IN  add_crossover(add_crossover(t2, 7, 21), 50, 200)

-----------------------------------------------------------------------------
(* add_lagged_features: src/data/feature_engineering.py:228-259            *)

add_lag(t, lag) ==
    IF NRows(t) > lag
    THEN WithCols(t,
                ((Name("Close_lag_", lag)) :> shift(t.col["Close"], lag))
             @@ ((Name("Return_lag_", lag)) :> shift(t.col["Return"], lag)))
    ELSE t

add_rsi_lag(t, lag) == SetCol(t, Name("RSI_lag_", lag), shift(t.col["RSI"], lag))

add_cumulative_return(t, period) ==
    IF NRows(t) > period
    THEN SetCol(t, Name("Cumulative_Return_", period), pct_change(t.col["Close"], period))
    ELSE t

add_rolling_stats(t, period) ==
    IF NRows(t) > period
    THEN LET C == t.col["Close"]
         IN  WithCols(t,
                ((Name("Rolling_Mean_", period)) :> rolling_mean(C, period))
             @@ ((Name("Rolling_Std_", period)) :> rolling_std(C, period))
             @@ ((Name("Rolling_Min_", period)) :> rolling_min(C, period))
             @@ ((Name("Rolling_Max_", period)) :> rolling_max(C, period)))
    ELSE t

add_lagged_features(t) ==
    LET t1 == ForEach(add_lag, t, LAG_PERIODS, 1)
        t2 == IF HasCol(t1, "RSI") THEN ForEach(add_rsi_lag, t1, RSI_LAGS, 1) ELSE t1
        t3 == ForEach(add_cumulative_return, t2, CUMULATIVE_PERIODS, 1)
    IN  ForEach(add_rolling_stats, t3, ROLLING_PERIODS, 1)

-----------------------------------------------------------------------------
(* add_target_variables: src/data/feature_engineering.py:293-320           *)

THRESHOLD == <<1, 1000>>

\* Target_Direction with >= in place of >
Target_Direction_geq(close, H) ==
    LET future == shift(close, -H)
    IN  Col([i \in 1 .. Len(close) |->
                Where(~IsNaN(future[i]) /\ ~Lt(future[i], close[i]), Num(1), Num(0))])

\* np.where(Close.shift(-H) > Close, 1, 0)
Target_Direction(close, H) ==
    LET future == shift(close, -H)
    IN  Col([i \in 1 .. Len(close) |-> Where(Gt(future[i], close[i]), Num(1), Num(0))])

\* Close.pct_change(periods=-H).shift(H), then .shift(-H)
Target_Return(close, H) ==
    shift(shift(pct_change(close, -H), H), -H)

\* Close.shift(-H)
Target_Close(close, H) == shift(close, -H)

\* Direction_Multi with every test >= in place of >
Direction_Multi_inclusive(r) ==
    IF IsNaN(r) THEN Num(-2)
    ELSE IF ~Lt(r, Mul(THRESHOLD, Num(2))) THEN Num(2)
    ELSE IF ~Lt(r, THRESHOLD) THEN Num(1)
    ELSE IF ~Lt(r, Neg(THRESHOLD)) THEN Num(0)
    ELSE IF ~Lt(r, Mul(Neg(THRESHOLD), Num(2))) THEN Num(-1)
    ELSE Num(-2)

\* Direction_Multi with the "up" test >= in place of >
Direction_Multi_up_inclusive(r) ==
    IF Gt(r, Mul(THRESHOLD, Num(2))) THEN Num(2)
    ELSE IF ~IsNaN(r) /\ ~Lt(r, THRESHOLD) THEN Num(1)
    ELSE IF Gt(r, Neg(THRESHOLD)) THEN Num(0)
    ELSE IF Gt(r, Mul(Neg(THRESHOLD), Num(2))) THEN Num(-1)
    ELSE Num(-2)

\* np.select(conditions, [2, 1, 0, -1], default=-2) on one return
Direction_Multi(r) ==
    IF Gt(r, Mul(THRESHOLD, Num(2))) THEN Num(2)
    ELSE IF Gt(r, THRESHOLD) THEN Num(1)
    ELSE IF Gt(r, Neg(THRESHOLD)) THEN Num(0)
    ELSE IF Gt(r, Mul(Neg(THRESHOLD), Num(2))) THEN Num(-1)
    ELSE Num(-2)

Target_Direction_Multi(ret) == Col([i \in 1 .. Len(ret) |-> Direction_Multi(ret[i])])

add_target_variables(t, H) ==
    LET close == t.col["Close"]
        ret == Target_Return(close, H)
    IN  WithCols(t,
                ("Target_Direction" :> Target_Direction(close, H))
             @@ ("Target_Return" :> ret)
             @@ ("Target_Close" :> Target_Close(close, H))
             @@ ("Target_Direction_Multi" :> Target_Direction_Multi(ret)))

LABEL_COLUMNS == {"Target_Direction", "Target_Return", "Target_Close", "Target_Direction_Multi"}

-----------------------------------------------------------------------------
(* add_time_features: src/data/feature_engineering.py:262-290              *)
(* A Date cell of the CSV is the text [year, month, day]; pd.to_datetime   *)
(* turns it into a day count since 1970-01-01.                             *)

IsLeap(y) == (y % 4 = 0 /\ y % 100 # 0) \/ y % 400 = 0
DaysInMonth(y, m) ==
    IF m = 2 THEN (IF IsLeap(y) THEN 29 ELSE 28)
    ELSE IF m \in {4, 6, 9, 11} THEN 30 ELSE 31

days_from_civil(y, m, d) ==
    LET yy == IF m <= 2 THEN y - 1 ELSE y
        era == yy \div 400
        yoe == yy - era * 400
        mp == IF m > 2 THEN m - 3 ELSE m + 9
        doy == (153 * mp + 2) \div 5 + d - 1
        doe == yoe * 365 + yoe \div 4 - yoe \div 100 + doy
    IN  era * 146097 + doe - 719468

civil_from_days(z) ==
    LET zz == z + 719468
        era == zz \div 146097
        doe == zz - era * 146097
        yoe == (doe - doe \div 1460 + doe \div 36524 - doe \div 146096) \div 365
        doy == doe - (365 * yoe + yoe \div 4 - yoe \div 100)
        mp == (5 * doy + 2) \div 153
        d == doy - (153 * mp + 2) \div 5 + 1
        m == IF mp < 10 THEN mp + 3 ELSE mp - 9
        y == yoe + era * 400 + (IF m <= 2 THEN 1 ELSE 0)
    IN  [year |-> y, month |-> m, day |-> d]

to_datetime(text) == Num(days_from_civil(text.year, text.month, text.day))

dayofweek(z) == (z + 3) % 7

WeeksInYear(y) ==
    LET P(x) == (x + x \div 4 - x \div 100 + x \div 400) % 7
    IN  IF P(y) = 4 \/ P(y - 1) = 3 THEN 53 ELSE 52

isoweek(z) ==
    LET c == civil_from_days(z)
        doy == z - days_from_civil(c.year, 1, 1) + 1
        w == (doy - (dayofweek(z) + 1) + 10) \div 7
    IN  IF w < 1 THEN WeeksInYear(c.year - 1)
        ELSE IF w > WeeksInYear(c.year) THEN 1
        ELSE w

\* np.sin and np.cos of 2*pi*k/period
Sin(k, period) == IF k = 0 THEN Num(0) ELSE Term("sin", <<>>, <<Norm(2 * k, period)>>)
Cos(k, period) == IF k = 0 THEN Num(1) ELSE Term("cos", <<>>, <<Norm(2 * k, period)>>)

add_time_features(t) ==
    LET date == Map1(to_datetime, t.col["Date"])
        N == 1 .. Len(date)
        dow == Col([i \in N |-> dayofweek(date[i][1])])
        civil == Col([i \in N |-> civil_from_days(date[i][1])])
        month_start == Col([i \in N |-> civil[i].day = 1])
        month_end == Col([i \in N |-> civil[i].day = DaysInMonth(civil[i].year, civil[i].month)])
    IN  WithCols(t,
                ("Date" :> date)
             @@ ("Day_of_Week" :> Col([i \in N |-> Num(dow[i])]))
             @@ ("Day_of_Month" :> Col([i \in N |-> Num(civil[i].day)]))
             @@ ("Month" :> Col([i \in N |-> Num(civil[i].month)]))
             @@ ("Quarter" :> Col([i \in N |-> Num((civil[i].month - 1) \div 3 + 1)]))
             @@ ("Year" :> Col([i \in N |-> Num(civil[i].year)]))
             @@ ("Week_of_Year" :> Col([i \in N |-> Num(isoweek(date[i][1]))]))
             @@ ("Is_Monday" :> Col([i \in N |-> BoolInt(dow[i] = 0)]))
             @@ ("Is_Friday" :> Col([i \in N |-> BoolInt(dow[i] = 4)]))
             @@ ("Is_Month_Start" :> Col([i \in N |-> BoolInt(month_start[i])]))
             @@ ("Is_Month_End" :> Col([i \in N |-> BoolInt(month_end[i])]))
             @@ ("Is_Quarter_Start" :>
                    Col([i \in N |-> BoolInt(month_start[i] /\ civil[i].month \in {1, 4, 7, 10})]))
             @@ ("Is_Quarter_End" :>
                    Col([i \in N |-> BoolInt(month_end[i] /\ civil[i].month \in {3, 6, 9, 12})]))
             @@ ("Day_sin" :> Col([i \in N |-> Sin(dow[i], 7)]))
             @@ ("Day_cos" :> Col([i \in N |-> Cos(dow[i], 7)]))
             @@ ("Month_sin" :> Col([i \in N |-> Sin(civil[i].month, 12)]))
             @@ ("Month_cos" :> Col([i \in N |-> Cos(civil[i].month, 12)])))

-----------------------------------------------------------------------------
(* DataFrame.dropna(): src/data/feature_engineering.py:347                 *)

RowHasNaN(t, i) == \E c \in DOMAIN t.col : IsNaN(t.col[c][i])

\* the positions lo..hi that satisfy Keep, in increasing order
RECURSIVE Select(_, _, _)
Select(Keep(_), lo, hi) ==
    IF lo > hi THEN <<>>
    ELSE IF lo = hi THEN (IF Keep(lo) THEN <<lo>> ELSE <<>>)
    ELSE LET mid == (lo + hi) \div 2
         IN  Select(Keep, lo, mid) \o Select(Keep, mid + 1, hi)

\* dropna(how='all'): a row is dropped only if every cell of it is undefined
dropna_how_all(t) ==
    LET Keep(i) == \E c \in DOMAIN t.col : ~IsNaN(t.col[c][i])
        kept == Select(Keep, 1, NRows(t))
    IN  Table(Col([j \in 1 .. Len(kept) |-> t.index[kept[j]]]),
              [c \in DOMAIN t.col |-> Col([j \in 1 .. Len(kept) |-> t.col[c][kept[j]]])])

dropna(t) ==
    LET Keep(i) == ~RowHasNaN(t, i)
        kept == Select(Keep, 1, NRows(t))
    IN  Table(Col([j \in 1 .. Len(kept) |-> t.index[kept[j]]]),
              [c \in DOMAIN t.col |-> Col([j \in 1 .. Len(kept) |-> t.col[c][kept[j]]])])

-----------------------------------------------------------------------------
(* Input series                                                            *)

RangeIndex(n) == Col([i \in 1 .. n |-> i - 1])
RangeIndexFrom(a, b) == Col([i \in 1 .. (b - a + 1) |-> a + i - 1])

\* the table pd.read_csv makes of a CSV with the six raw columns
RawTable(dates, o, h, l, c, v) ==
    Table(RangeIndex(Len(c)),
          [k \in {"Date", "Open", "High", "Low", "Close", "Volume"} |->
              IF k = "Date" THEN dates
              ELSE IF k = "Open" THEN o
              ELSE IF k = "High" THEN h
              ELSE IF k = "Low" THEN l
              ELSE IF k = "Close" THEN c
              ELSE v])

BasePrice == 100
FirstDay == days_from_civil(2020, 1, 1)

Max2(a, b) == IF a > b THEN a ELSE b
Min2(a, b) == IF a < b THEN a ELSE b

\* the close of row t (0-based) of a generated series
CloseAt(kind, t) ==
    IF kind = "rising" THEN BasePrice + t
    ELSE IF kind = "rising2" THEN BasePrice + 2 * t
    ELSE IF kind = "peak" THEN BasePrice + (IF t < 5 THEN t ELSE 10 - t)
    ELSE IF kind = "falling" THEN BasePrice + 400 - t
    ELSE IF kind = "zigzag" THEN BasePrice + <<0, 3, 1, 2, 5>>[(t % 5) + 1] + t \div 50
    ELSE IF kind = "plateau" THEN BasePrice + (IF t < 210 THEN t ELSE IF t < 240 THEN 210 ELSE t - 30)
    ELSE BasePrice

\* n daily bars; a bar opens at the previous close and has a wick of one on each
\* side, except on the rows in flat, where open = high = low = close
Bars(n, kind, flat) ==
    LET c(t) == CloseAt(kind, t)
        o(t) == IF t = 0 \/ t \in flat THEN c(t) ELSE c(t - 1)
        w(t) == IF t \in flat THEN 0 ELSE 1
    IN  RawTable(Col([i \in 1 .. n |-> civil_from_days(FirstDay + i - 1)]),
                 Col([i \in 1 .. n |-> Num(o(i - 1))]),
                 Col([i \in 1 .. n |-> Num(Max2(o(i - 1), c(i - 1)) + w(i - 1))]),
                 Col([i \in 1 .. n |-> Num(Min2(o(i - 1), c(i - 1)) - w(i - 1))]),
                 Col([i \in 1 .. n |-> Num(c(i - 1))]),
                 Col([i \in 1 .. n |-> Num(0)]))

\* a table that has only the named columns of t
Project(t, names) == [t EXCEPT !.col = [k \in names |-> t.col[k]]]

Csv(t) == [kind |-> "csv", table |-> t]
EmptyFile == [kind |-> "empty"]
Missing == [kind |-> "missing"]

-----------------------------------------------------------------------------
(* process_single_file: src/data/feature_engineering.py:327-359            *)

TIMEFRAMES == <<"daily", "4h", "1h">>
ALL_PAIRS == <<"EUR_USD", "GBP_USD", "USD_JPY", "AUD_USD", "USD_CHF">>
NumPairs == 1
CURRENCY_PAIRS == SubSeq(ALL_PAIRS, 1, NumPairs)

Item == <<tfi, pri>>
NewId == IF DOMAIN heap = {} THEN 1 ELSE 1 + CHOOSE k \in DOMAIN heap : \A j \in DOMAIN heap : j <= k

\* df = pd.read_csv(input_path)
ReadCsv ==
    /\ pc = "read"
    /\ LET f == files.csv[Item]
       IN  IF f.kind = "csv"
           THEN /\ heap' = (NewId :> f.table) @@ heap
                /\ df' = NewId
                /\ pc' = "price"
                /\ raised' = raised
           ELSE /\ raised' = "EmptyDataError"
                /\ pc' = "except"
                /\ UNCHANGED <<heap, df>>
    /\ UNCHANGED <<horizon, tfi, pri, results, log, files, download, outputs>>

\* df = stage(df): the stage assigns its columns into the object df names and
\* returns that same object; a column it reads and does not find is a KeyError
Call(F(_), needs, next) ==
    IF needs \subseteq Columns(heap[df])
    THEN /\ heap' = [heap EXCEPT ![df] = F(heap[df])]
         /\ pc' = next
         /\ raised' = raised
    ELSE /\ raised' = "KeyError"
         /\ pc' = "except"
         /\ heap' = heap

AddPriceFeatures ==
    /\ pc = "price"
    /\ Call(add_price_features, {"Open", "High", "Low", "Close"}, "technical")
    /\ UNCHANGED <<df, horizon, tfi, pri, results, log, files, download, outputs>>

AddTechnicalIndicators ==
    /\ pc = "technical"
    /\ Call(add_technical_indicators, {"High", "Low", "Close"}, "lagged")
    /\ UNCHANGED <<df, horizon, tfi, pri, results, log, files, download, outputs>>

AddLaggedFeatures ==
    /\ pc = "lagged"
    /\ Call(add_lagged_features, {"Close", "Return"}, "time")
    /\ UNCHANGED <<df, horizon, tfi, pri, results, log, files, download, outputs>>

AddTimeFeatures ==
    /\ pc = "time"
    /\ Call(add_time_features, {"Date"}, "target")
    /\ UNCHANGED <<df, horizon, tfi, pri, results, log, files, download, outputs>>

AddTarget(t) == add_target_variables(t, horizon)

AddTargetVariables ==
    /\ pc = "target"
    /\ Call(AddTarget, {"Close"}, "dropna")
    /\ UNCHANGED <<df, horizon, tfi, pri, results, log, files, download, outputs>>

\* the file to_csv(output_path, index=False) writes of t: the index is not kept
Written(t) == Table(RangeIndex(NRows(t)), t.col)

\* df_clean = df.dropna(); df_clean.to_csv(output_path, index=False); return df_clean
DropnaAndSave ==
    /\ pc = "dropna"
    /\ LET df_clean == dropna(heap[df])
       IN  /\ heap' = (NewId :> df_clean) @@ heap
           /\ df' = NewId
           /\ outputs' = [k \in (DOMAIN outputs) \cup {Item} |->
                             IF k = Item THEN Written(df_clean)
                             ELSE outputs[k]]
    /\ pc' = "append"
    /\ UNCHANGED <<horizon, raised, tfi, pri, results, log, files, download>>

\* df = stage(df), the argument being evaluated before the call
Then(F(_), t) == CHOOSE r \in { F(x) : x \in {t} } : TRUE

\* the table the four stages make of the raw table t
Features(t) ==
    Then(add_time_features,
         Then(add_lagged_features,
              Then(add_technical_indicators,
                   Then(add_price_features, t))))

ProcessSingleFile ==
    \/ ReadCsv
    \/ AddPriceFeatures
    \/ AddTechnicalIndicators
    \/ AddLaggedFeatures
    \/ AddTimeFeatures
    \/ AddTargetVariables
    \/ DropnaAndSave

-----------------------------------------------------------------------------
(* process_all_data: src/data/feature_engineering.py:362-424               *)

Timeframe == TIMEFRAMES[tfi]
Pair == CURRENCY_PAIRS[pri]

\* what an input file of the run may hold
NoDate(t) == Project(t, {"Open", "High", "Low", "Close", "Volume"})

\* a file of 25 bars and a file with no Date column
DriverFiles == { Csv(Bars(25, "rising", {})), Csv(NoDate(Bars(2, "rising", {}))) }

AddDefaultTarget(t) == add_target_variables(t, DEFAULT_HORIZON)

\* process_single_file as one call on the file f: the exception it raises, or
\* the table df_clean it writes and returns
process_single_file(f) ==
    IF f.kind # "csv" THEN [raised |-> "EmptyDataError"]
    ELSE IF ~({"Open", "High", "Low", "Close", "Date"} \subseteq Columns(f.table))
    THEN [raised |-> "KeyError"]
    ELSE [raised |-> "none",
          df |-> Then(dropna, Then(AddDefaultTarget, Features(f.table)))]

\* each file of the run with what process_single_file does on it
Outcomes == { <<f, process_single_file(f)>> : f \in DriverFiles }

Processing(item) == <<"processing", TIMEFRAMES[item[1]], CURRENCY_PAIRS[item[2]]>>

Entry(rows, columns, status) ==
    [Pair |-> Pair, Timeframe |-> Timeframe, Rows |-> rows, Columns |-> columns,
     Status |-> status]


\* the configured items, and the input directories and files a run may find:
\* a directory that is missing holds no file
Items == (1 .. Len(TIMEFRAMES)) \X (1 .. Len(CURRENCY_PAIRS))
FileSystems ==
    { fs \in [dirs : [1 .. Len(TIMEFRAMES) -> BOOLEAN],
              csv : [Items -> DriverFiles \cup {Missing}]] :
        \A item \in Items : ~fs.dirs[item[1]] => fs.csv[item] = Missing }

\* os.makedirs of the output directories; results = []
MakeDirs ==
    /\ pc = "start"
    /\ pc' = "timeframe"
    /\ tfi' = 1
    /\ results' = <<>>
    /\ UNCHANGED <<heap, df, horizon, raised, pri, log, files, download, outputs>>

\* if not os.path.exists(input_dir): print(...); continue
DirMissing ==
    /\ pc = "timeframe"
    /\ tfi <= Len(TIMEFRAMES)
    /\ ~files.dirs[tfi]
    /\ log' = Append(log, <<"no_dir", Timeframe>>)
    /\ tfi' = tfi + 1
    /\ UNCHANGED <<pc, heap, df, horizon, raised, pri, results, files, download, outputs>>

DirExists ==
    /\ pc = "timeframe"
    /\ tfi <= Len(TIMEFRAMES)
    /\ files.dirs[tfi]
    /\ pri' = 1
    /\ pc' = "pair"
    /\ UNCHANGED <<heap, df, horizon, raised, tfi, results, log, files, download, outputs>>

\* else: print("File không tồn tại")
FileMissing ==
    /\ pc = "pair"
    /\ pri <= Len(CURRENCY_PAIRS)
    /\ files.csv[Item] = Missing
    /\ log' = Append(log, <<"no_file", Timeframe, Pair>>)
    /\ pri' = pri + 1
    /\ UNCHANGED <<pc, heap, df, horizon, raised, tfi, results, files, download, outputs>>

\* if os.path.exists(input_file): try: df = process_single_file(...);
\* results.append({... 'Status': ok}), when the call returns
ItemSucceeds ==
    /\ pc = "pair"
    /\ pri <= Len(CURRENCY_PAIRS)
    /\ \E call \in Outcomes :
          /\ call[1] = files.csv[Item]
          /\ call[2].raised = "none"
          /\ outputs' = [k \in (DOMAIN outputs) \cup {Item} |->
                            IF k = Item THEN Written(call[2].df) ELSE outputs[k]]
          /\ results' = Append(results, Entry(NRows(call[2].df),
                                              Cardinality(Columns(call[2].df)), "ok"))
    /\ log' = Append(log, Processing(Item))
    /\ pri' = pri + 1
    /\ UNCHANGED <<pc, heap, df, horizon, raised, tfi, files, download>>

\* ItemFails with no except clause: the exception ends the run
ItemFails_uncaught ==
    /\ pc = "pair"
    /\ pri <= Len(CURRENCY_PAIRS)
    /\ \E call \in Outcomes :
          /\ call[1] = files.csv[Item]
          /\ call[2].raised # "none"
    /\ log' = log \o <<Processing(Item), <<"error", Timeframe, Pair>>>>
    /\ pc' = "done"
    /\ UNCHANGED <<heap, df, horizon, raised, tfi, pri, results, files, download, outputs>>

\* ... except Exception as e: print(...); results.append({... 'Status': failed}),
\* when the call raises
ItemFails ==
    /\ pc = "pair"
    /\ pri <= Len(CURRENCY_PAIRS)
    /\ \E call \in Outcomes :
          /\ call[1] = files.csv[Item]
          /\ call[2].raised # "none"
    /\ log' = log \o <<Processing(Item), <<"error", Timeframe, Pair>>>>
    /\ results' = Append(results, Entry(0, 0, "failed"))
    /\ pri' = pri + 1
    /\ UNCHANGED <<pc, heap, df, horizon, raised, tfi, files, download, outputs>>

\* the inner loop is over: next timeframe
PairsDone ==
    /\ pc = "pair"
    /\ pri > Len(CURRENCY_PAIRS)
    /\ tfi' = tfi + 1
    /\ pc' = "timeframe"
    /\ UNCHANGED <<heap, df, horizon, raised, pri, results, log, files, download, outputs>>

\* results_df = pd.DataFrame(results); return results_df
Summary ==
    /\ pc = "timeframe"
    /\ tfi > Len(TIMEFRAMES)
    /\ pc' = "done"
    /\ UNCHANGED <<heap, df, horizon, raised, tfi, pri, results, log, files, download, outputs>>

NoFiles == [dirs |-> <<>>, csv |-> <<>>]

Init ==
    /\ pc = "start"
    /\ heap = <<>>
    /\ df = 0
    /\ horizon = DEFAULT_HORIZON
    /\ raised = "none"
    /\ tfi = 0
    /\ pri = 0
    /\ results = <<>>
    /\ log = <<>>
    /\ files \in FileSystems
    /\ outputs = <<>>
    /\ NoDownload

Next ==
    \/ MakeDirs
    \/ DirMissing
    \/ DirExists
    \/ FileMissing
    \/ ItemSucceeds
    \/ ItemFails
    \/ PairsDone
    \/ Summary

Spec == Init /\ [][Next]_vars

\* the interpreter runs the next statement of process_all_data whenever there
\* is one
FairSpec == Spec /\ WF_vars(Next)

-----------------------------------------------------------------------------
(* add_target_variables called on its own, with any horizon                *)

MaxLen == 4
\* how many horizons below 1 are tried: 0, -1, ...
BadHorizons == 2
MaxHorizon == 2
TargetPrices == {9980, 9985, 9990, 10000, 10010, 10020, 10021}

RECURSIVE SeqsUpTo(_, _)
SeqsUpTo(S, n) ==
    IF n = 0 THEN {<<>>}
    ELSE LET shorter == SeqsUpTo(S, n - 1)
         IN  shorter \cup {Append(q, x) : q \in {r \in shorter : Len(r) = n - 1}, x \in S}

CloseTable(closes) ==
    Table(RangeIndex(Len(closes)), [k \in {"Close"} |-> Col([i \in 1 .. Len(closes) |-> Num(closes[i])])])

TargetInit ==
    /\ pc = "target"
    /\ \E closes \in SeqsUpTo(TargetPrices, MaxLen) : heap = (1 :> CloseTable(closes))
    /\ df = 1
    /\ horizon \in (1 - BadHorizons) .. MaxHorizon
    /\ raised = "none"
    /\ tfi = 1
    /\ pri = 1
    /\ results = <<>>
    /\ log = <<>>
    /\ files = NoFiles
    /\ outputs = <<>>
    /\ NoDownload

TargetNext == AddTargetVariables

TargetSpec == TargetInit /\ [][TargetNext]_vars

-----------------------------------------------------------------------------
(* process_single_file called on one input file                            *)

\* lengths on both sides of each conditional moving-average period, and 300
PipeLengths == {1, 2, 7, 8, 22, 23, 24, 50, 51, 100, 101, 150, 200, 201, 300}
PipeKinds == {"rising", "zigzag"}
\* rows of the 300-row rising series whose bar is a single price
PipeFlats == {{250}, 0 .. 299}

PipeFiles ==
    {EmptyFile}
        \cup { Csv(Bars(n, kind, {})) : n \in PipeLengths, kind \in PipeKinds }
        \cup { Csv(Bars(300, "rising", flat)) : flat \in PipeFlats }
        \cup { Csv(Bars(300, kind, {})) : kind \in {"rising2", "plateau", "constant"} }

PipeInit ==
    /\ pc = "read"
    /\ heap = <<>>
    /\ df = 0
    /\ horizon = DEFAULT_HORIZON
    /\ raised = "none"
    /\ tfi = 1
    /\ pri = 1
    /\ results = <<>>
    /\ log = <<<<"processing", TIMEFRAMES[1], CURRENCY_PAIRS[1]>>>>
    /\ \E f \in PipeFiles : files = [dirs |-> (1 :> TRUE), csv |-> (<<1, 1>> :> f)]
    /\ outputs = <<>>
    /\ NoDownload

PipeNext == ProcessSingleFile

PipeSpec == PipeInit /\ [][PipeNext]_vars

-----------------------------------------------------------------------------
(* The four feature stages called in a row on one input file               *)

\* lengths on both sides of the shortest conditional windows (3, 5 and 7)
MaxFeatureLen == 9
FeatureKinds == {"rising", "peak", "zigzag"}
FeatureInputs == { Bars(n, kind, {}) : n \in 1 .. MaxFeatureLen, kind \in FeatureKinds }
FeatureFiles == {EmptyFile} \cup { Csv(t) : t \in FeatureInputs }

FeatureInit ==
    /\ pc = "read"
    /\ heap = <<>>
    /\ df = 0
    /\ horizon = DEFAULT_HORIZON
    /\ raised = "none"
    /\ tfi = 1
    /\ pri = 1
    /\ results = <<>>
    /\ log = <<<<"processing", TIMEFRAMES[1], CURRENCY_PAIRS[1]>>>>
    /\ \E f \in FeatureFiles : files = [dirs |-> (1 :> TRUE), csv |-> (<<1, 1>> :> f)]
    /\ outputs = <<>>
    /\ NoDownload

FeatureNext ==
    \/ ReadCsv
    \/ AddPriceFeatures
    \/ AddTechnicalIndicators
    \/ AddLaggedFeatures
    \/ AddTimeFeatures

FeatureSpec == FeatureInit /\ [][FeatureNext]_vars

\* every input with the table the stages make of it
FeaturePairs == { <<t, Features(t)>> : t \in FeatureInputs }

RAW_COLUMNS == {"Date", "Open", "High", "Low", "Close", "Volume"}

-----------------------------------------------------------------------------
(* Properties of add_target_variables                                      *)

\* add_target_variables has returned: its result is the table df names
TargetReturned == pc = "dropna"
Labelled == heap[df]
CloseOf(t) == Labelled.col["Close"][t + 1][1]
LabelRows == 0 .. (NRows(Labelled) - 1)
HasFuture(t) == t + horizon < NRows(Labelled)

\* C1: for H >= 1 and every row t with t + H < N, Target_Return at row t is
\* (close[t+H] - close[t]) / close[t]
C1_ReturnIsForwardChange ==
    (TargetReturned /\ horizon >= 1) =>
        \A t \in LabelRows :
            HasFuture(t) =>
                At(Labelled.col["Target_Return"], t)
                    = Norm(CloseOf(t + horizon) - CloseOf(t), CloseOf(t))

\* C2: for H >= 1 the Target_Direction of each of the last H rows is undefined
C2_LastRowsUndefined ==
    (TargetReturned /\ horizon >= 1) =>
        \A t \in LabelRows :
            ~HasFuture(t) => IsNaN(At(Labelled.col["Target_Direction"], t))

\* C3: for H >= 1 and every row t with t + H < N, Target_Direction at row t is 1
\* if close[t+H] > close[t] and 0 otherwise
C3_DirectionOfFutureClose ==
    (TargetReturned /\ horizon >= 1) =>
        \A t \in LabelRows :
            HasFuture(t) =>
                At(Labelled.col["Target_Direction"], t)
                    = (IF CloseOf(t + horizon) > CloseOf(t) THEN Num(1) ELSE Num(0))

\* a call with H >= 1 on a series that has a rising, a falling and an unchanged
\* step of H rows
C3_Witness ==
    /\ TargetReturned
    /\ horizon >= 1
    /\ \E t \in LabelRows : HasFuture(t) /\ CloseOf(t + horizon) > CloseOf(t)
    /\ \E t \in LabelRows : HasFuture(t) /\ CloseOf(t + horizon) = CloseOf(t)
    /\ \E t \in LabelRows : HasFuture(t) /\ CloseOf(t + horizon) < CloseOf(t)

\* the bucket of the return n/d (d > 0) with theta = 1/1000, by first match
Bucket(n, d) ==
    IF 1000 * n > 2 * d THEN 2
    ELSE IF 1000 * n > d THEN 1
    ELSE IF 1000 * n > -d THEN 0
    ELSE IF 1000 * n > -2 * d THEN -1
    ELSE -2

ReturnAt(t) == At(Labelled.col["Target_Return"], t)
MultiAt(t) == At(Labelled.col["Target_Direction_Multi"], t)
\* row t has the return k/10000 exactly
ReturnIs(t, k) == IsRat(ReturnAt(t)) /\ ReturnAt(t) = Norm(k, 10000)

\* C6: on every row with a defined return r, Target_Direction_Multi is the first
\* match of r > 2*theta -> 2, r > theta -> 1, r > -theta -> 0, r > -2*theta -> -1,
\* else -2; a return equal to a threshold is in the lower of the two buckets
C6_MultiFirstMatch ==
    TargetReturned =>
        \A t \in LabelRows :
            IsRat(ReturnAt(t)) =>
                /\ MultiAt(t) = Num(Bucket(ReturnAt(t)[1], ReturnAt(t)[2]))
                /\ ReturnIs(t, 20) => MultiAt(t) = Num(1)
                /\ ReturnIs(t, 10) => MultiAt(t) = Num(0)
                /\ ReturnIs(t, -10) => MultiAt(t) = Num(-1)
                /\ ReturnIs(t, -20) => MultiAt(t) = Num(-2)

\* a labelled table with a return exactly on the threshold 2*theta, classified
\* "up", next to a return that is on no threshold
C6_Witness ==
    /\ TargetReturned
    /\ \E t \in LabelRows : ReturnIs(t, 20) /\ MultiAt(t) = Num(1)
    /\ \E t \in LabelRows : ReturnIs(t, 0)

\* C7 as claimed: 0.0021 -> strong up, 0.001 -> up, 0 -> neutral,
\* -0.0015 -> down, -0.002 -> strong down
C7_BoundaryTableAsClaimed ==
    TargetReturned =>
        \A t \in LabelRows :
            /\ ReturnIs(t, 21) => MultiAt(t) = Num(2)
            /\ ReturnIs(t, 10) => MultiAt(t) = Num(1)
            /\ ReturnIs(t, 0) => MultiAt(t) = Num(0)
            /\ ReturnIs(t, -15) => MultiAt(t) = Num(-1)
            /\ ReturnIs(t, -20) => MultiAt(t) = Num(-2)

\* C7 amended: 0.0021 -> strong up, 0.001 -> neutral, 0 -> neutral,
\* -0.0015 -> down, -0.002 -> strong down
C7_BoundaryTable ==
    TargetReturned =>
        \A t \in LabelRows :
            /\ ReturnIs(t, 21) => MultiAt(t) = Num(2)
            /\ ReturnIs(t, 10) => MultiAt(t) = Num(0)
            /\ ReturnIs(t, 0) => MultiAt(t) = Num(0)
            /\ ReturnIs(t, -15) => MultiAt(t) = Num(-1)
            /\ ReturnIs(t, -20) => MultiAt(t) = Num(-2)

\* a labelled table with a return of exactly 0.001, classified neutral
C7_Witness ==
    /\ TargetReturned
    /\ \E t \in LabelRows : ReturnIs(t, 10) /\ MultiAt(t) = Num(0)

\* C8: a call with H < 1 ends in InvalidHorizon and leaves no label column
C8_InvalidHorizonRejected ==
    (horizon < 1 /\ pc # "target") =>
        /\ raised = "InvalidHorizon"
        /\ Columns(Labelled) \cap LABEL_COLUMNS = {}

-----------------------------------------------------------------------------
(* Properties of process_single_file                                       *)

\* process_single_file has written its output and is about to return df_clean
PipeReturned == pc = "append"
Input == files.csv[Item].table
Clean == heap[df]
\* largest warm-up of a configured window: the 200-period moving average
Warmup == MA_PERIODS[Len(MA_PERIODS)] - 1

\* the statements of process_single_file, run one by one, end as the call in
\* process_all_data does
StepsAgreeWithCall ==
    /\ PipeReturned =>
          process_single_file(files.csv[Item]) = [raised |-> "none", df |-> Clean]
    /\ pc = "except" => process_single_file(files.csv[Item]) = [raised |-> raised]

\* C4: the number of rows retained is N - W - H with W = 199, for every N and
\* every bar content
C4_RowCountLaw ==
    PipeReturned => NRows(Clean) = NRows(Input) - Warmup - horizon

\* the input has 300 rows and its close rises by one positive increment per row
RisingScenario ==
    LET close == Input.col["Close"]
        step(i) == Sub(close[i + 1], close[i])
    IN  /\ NRows(Input) = 300
        /\ Gt(step(1), Num(0))
        /\ \A i \in 1 .. 299 : step(i) = step(1)

\* no bar of the input is a single price, and the typical price is not the same
\* on 20 rows in a row
ProperBars ==
    LET tp(i) == Add(Add(Input.col["High"][i], Input.col["Low"][i]), Input.col["Close"][i])
    IN  /\ \A i \in 1 .. NRows(Input) : Gt(Input.col["High"][i], Input.col["Low"][i])
        /\ \A i \in 20 .. NRows(Input) : \E j \in (i - 19) .. i : tp(j) # tp(i)

\* rows 199..298 are retained, each with Target_Direction 1 and RSI 100
ScenarioOutcome ==
    /\ Clean.index = RangeIndexFrom(199, 298)
    /\ \A i \in 1 .. NRows(Clean) :
          /\ Clean.col["Target_Direction"][i] = Num(1)
          /\ Clean.col["RSI"][i] = Num(RSI_CEILING)

Assembled == heap[1]
\* the rows (0-based) of the assembled table with every computed cell defined
DefinedRows ==
    { t \in 0 .. (NRows(Assembled) - 1) :
        \A c \in Columns(Assembled) \ RAW_COLUMNS : ~IsNaN(At(Assembled.col[c], t)) }

\* C12: the table written has the columns of the assembled table and exactly
\* its rows with no undefined computed cell, each unchanged, in their order
C12_ExactTrimming ==
    PipeReturned =>
        /\ Columns(Clean) = Columns(Assembled)
        /\ outputs[Item].col = Clean.col
        /\ { Clean.index[j] : j \in 1 .. NRows(Clean) } = DefinedRows
        /\ \A j \in 1 .. (NRows(Clean) - 1) : Clean.index[j] < Clean.index[j + 1]
        /\ \A j \in 1 .. NRows(Clean) :
              \A c \in Columns(Clean) : Clean.col[c][j] = At(Assembled.col[c], Clean.index[j])

\* a written table that lacks rows from the start, the middle and the end of
\* the assembled one
C12_Witness ==
    /\ PipeReturned
    /\ NRows(Clean) > 0
    /\ Clean.index[1] > 0
    /\ Clean.index[NRows(Clean)] < NRows(Assembled) - 1
    /\ NRows(Clean) < Clean.index[NRows(Clean)] - Clean.index[1] + 1

\* every stage of process_single_file has run and dropna has not
AllStagesDone == pc = "dropna"
\* column c of the table the stages worked on, at row t (0-based)
Cell(c, t) == At(heap[df].col[c], t)

\* C13: in the assembled table RSI_overbought and RSI_oversold are undefined
\* where RSI is, the true range at row 0 and each ATR whose window holds row 0
\* are undefined, and Target_Direction_Multi is undefined where Target_Return is
C13_UndefinedPropagates ==
    AllStagesDone =>
        LET t0 == heap[df]
            tr == true_range(t0.col["High"], t0.col["Low"], t0.col["Close"])
        IN  \A t \in 0 .. (NRows(t0) - 1) :
                /\ IsNaN(Cell("RSI", t)) =>
                        IsNaN(Cell("RSI_overbought", t)) /\ IsNaN(Cell("RSI_oversold", t))
                /\ t = 0 => IsNaN(At(tr, t))
                /\ t < ATR_PERIOD => IsNaN(Cell("ATR", t))
                /\ IsNaN(Cell("Target_Return", t)) => IsNaN(Cell("Target_Direction_Multi", t))

\* the control locations at which a stage is called
STAGE_CALLS == {"price", "technical", "lagged", "time", "target"}
\* a stage is called here and returns
StageReturns == pc \in STAGE_CALLS /\ pc' \notin {pc, "except"}

\* C14: a stage that returns leaves the object passed to it as it was, and
\* the table it returns is another object
C14_StagesLeaveInputUnchanged ==
    [][StageReturns => (heap'[df] = heap[df] /\ df' # df)]_vars

\* the pairs <<short, long>> of moving averages that get a crossover column
CROSSOVERS == {<<7, 21>>, <<50, 200>>}
CrossoverName(p) == "MA_" \o ToString(p[1]) \o "_" \o ToString(p[2]) \o "_crossover"

\* C16: a crossover column is undefined at the rows where its short or its long
\* moving average is undefined, and elsewhere it is +1 or -1, +1 where the short
\* average is above the long one and -1 where it is below
C16_CrossoverIsSign ==
    AllStagesDone =>
        \A p \in CROSSOVERS :
            HasCol(heap[df], CrossoverName(p)) =>
                \A t \in 0 .. (NRows(heap[df]) - 1) :
                    LET short == Cell(Name("SMA_", p[1]), t)
                        long  == Cell(Name("SMA_", p[2]), t)
                        cross == Cell(CrossoverName(p), t)
                    IN  IF IsNaN(short) \/ IsNaN(long)
                        THEN IsNaN(cross)
                        ELSE /\ cross \in {Num(1), Num(-1)}
                             /\ Gt(short, long) => cross = Num(1)
                             /\ Lt(short, long) => cross = Num(-1)

-----------------------------------------------------------------------------
(* Properties of the feature stages                                        *)

\* the four stages have returned: df names the table with every feature column
FeaturesReturned == pc = "target"
Featured == heap[df]

\* the raw tables a and b have the same rows 0..t
AgreeUpTo(a, b, t) ==
    /\ t < NRows(a)
    /\ t < NRows(b)
    /\ \A c \in RAW_COLUMNS : SubSeq(a.col[c], 1, t + 1) = SubSeq(b.col[c], 1, t + 1)

\* column c has the same cell at row t of x and of y
SameCell(x, y, c, t) ==
    /\ c \in Columns(x)
    /\ c \in Columns(y)
    /\ At(x.col[c], t) = At(y.col[c], t)

\* C9: for any two inputs that agree on rows 0..t, every column the stages
\* produce has the same cell at row t in both results, whatever follows row t
\* and however many rows follow; row order is preserved
C9_CausalAlignment ==
    FeaturesReturned =>
        /\ Featured.index = RangeIndex(NRows(Input))
        /\ \A p \in FeaturePairs :
              \A t \in 0 .. (NRows(Input) - 1) :
                  AgreeUpTo(Input, p[1], t) =>
                      \A c \in (Columns(Featured) \cup Columns(p[2])) \ RAW_COLUMNS :
                          SameCell(Featured, p[2], c, t)

-----------------------------------------------------------------------------
(* Properties of process_all_data                                          *)

Finished == pc = "done"
NumItems == Len(TIMEFRAMES) * Len(CURRENCY_PAIRS)
\* the k-th configured item, timeframes outermost
ItemAt(k) == <<((k - 1) \div Len(CURRENCY_PAIRS)) + 1, ((k - 1) % Len(CURRENCY_PAIRS)) + 1>>
InputExists(item) == files.dirs[item[1]] /\ files.csv[item].kind # "missing"
IsProcessing(e) == e[1] = "processing"
IsError(e) == e[1] = "error"

\* the items process_single_file was called on, in the order of the calls
Attempted == SelectSeq(log, IsProcessing)
\* the configured items whose input file exists, in the configured order
Existing == SelectSeq([k \in 1 .. NumItems |-> ItemAt(k)], InputExists)

\* C10: whatever items fail or are missing, process_single_file has been called
\* on every configured item whose input exists, in the configured order, when
\* the run ends, and the run does end with its summary
C10_FailureNeverAborts ==
    /\ [](Finished => Attempted = [k \in 1 .. Len(Existing) |-> Processing(Existing[k])])
    /\ <>Finished

\* a finished run in which an item failed, a later item was missing, and an
\* item after both was processed
C10_Witness ==
    /\ Finished
    /\ \E i, j, k \in 1 .. Len(log) :
          /\ i < j
          /\ j < k
          /\ IsError(log[i])
          /\ log[j][1] \in {"no_file", "no_dir"}
          /\ IsProcessing(log[k])

\* the entries of the summary for the item
EntriesOf(item) ==
    { k \in 1 .. Len(results) :
        /\ results[k].Timeframe = TIMEFRAMES[item[1]]
        /\ results[k].Pair = CURRENCY_PAIRS[item[2]] }
\* what process_single_file does on the input file of the item
CallOf(item) == (CHOOSE call \in Outcomes : call[1] = files.csv[item])[2]

\* C11: the summary of a finished run has one entry for each configured item:
\* a failure entry if its input is missing or process_single_file raised, a
\* success entry with the row and column counts otherwise
C11_EveryFailureRecorded ==
    Finished =>
        \A item \in Items :
            /\ Cardinality(EntriesOf(item)) = 1
            /\ \A k \in EntriesOf(item) :
                  IF InputExists(item) /\ CallOf(item).raised = "none"
                  THEN results[k] = [Pair |-> CURRENCY_PAIRS[item[2]],
                                     Timeframe |-> TIMEFRAMES[item[1]],
                                     Rows |-> NRows(CallOf(item).df),
                                     Columns |-> Cardinality(Columns(CallOf(item).df)),
                                     Status |-> "ok"]
                  ELSE results[k].Status = "failed"

-----------------------------------------------------------------------------
(* The indicator functions called on their own                             *)

MaxIndLen == 4
IndicatorPrices == {100, 101}
IndicatorPeriods == {2, 3}

\* a Series of prices over a RangeIndex
Series(prices) == Col([i \in 1 .. Len(prices) |-> Num(prices[i])])

\* arithmetic on two Series aligns them on the union of their indexes: a row
\* that one operand lacks is NaN in it
reindex(s, n) == Col([i \in 1 .. n |-> IF i <= Len(s) THEN s[i] ELSE NaN])

\* the arguments of the call: close, and a high and a low that reach no further
\* than close does (so that close.shift(1) holds every row of the union index)
IndicatorInit ==
    /\ pc = "indicator"
    /\ \E closes \in SeqsUpTo(IndicatorPrices, MaxIndLen) :
         \E nh \in 0 .. Len(closes), nl \in 0 .. Len(closes) :
            heap = [high  |-> Series([i \in 1 .. nh |-> closes[i] + 1]),
                    low   |-> Series([i \in 1 .. nl |-> closes[i] - 1]),
                    close |-> Series(closes)]
    /\ df = 1
    /\ horizon = DEFAULT_HORIZON
    /\ raised = "none"
    /\ tfi = 1
    /\ pri = 1
    /\ results = <<>>
    /\ log = <<>>
    /\ files = NoFiles
    /\ outputs = <<>>
    /\ NoDownload

\* a call that returns value
Returns(fn, period, value) ==
    /\ pc' = "indicator_returned"
    /\ results' = <<[fn |-> fn, period |-> period, value |-> value]>>
    /\ UNCHANGED <<heap, df, horizon, raised, tfi, pri, log, files, download, outputs>>

CallRsi ==
    /\ pc = "indicator"
    /\ \E period \in IndicatorPeriods :
         Returns("calculate_rsi", period, calculate_rsi(heap.close, period))

CallAtr ==
    /\ pc = "indicator"
    /\ \E period \in IndicatorPeriods :
         LET n == Len(heap.close)
         IN  Returns("calculate_atr", period,
                     calculate_atr(reindex(heap.high, n), reindex(heap.low, n), heap.close, period))

CallStochastic ==
    /\ pc = "indicator"
    /\ \E period \in IndicatorPeriods :
         LET n == Len(heap.close)
         IN  Returns("calculate_stochastic", period,
                     calculate_stochastic(reindex(heap.high, n), reindex(heap.low, n), heap.close, period))

CallCci ==
    /\ pc = "indicator"
    /\ \E period \in IndicatorPeriods :
         LET n == Len(heap.close)
         IN  Returns("calculate_cci", period,
                     calculate_cci(reindex(heap.high, n), reindex(heap.low, n), heap.close, period))

CallWilliamsR ==
    /\ pc = "indicator"
    /\ \E period \in IndicatorPeriods :
         LET n == Len(heap.close)
         IN  Returns("calculate_williams_r", period,
                     calculate_williams_r(reindex(heap.high, n), reindex(heap.low, n), heap.close, period))

IndicatorNext == CallRsi \/ CallAtr \/ CallStochastic \/ CallCci \/ CallWilliamsR

IndicatorSpec == IndicatorInit /\ [][IndicatorNext]_vars

-----------------------------------------------------------------------------
(* Properties of the indicator functions                                   *)

IndicatorReturned == pc = "indicator_returned"
Returned == results[1]
\* the functions that read high and low
USES_HIGH_LOW == {"calculate_atr", "calculate_stochastic", "calculate_cci", "calculate_williams_r"}
CallInvalid ==
    \/ Len(heap.close) = 0
    \/ Returned.fn \in USES_HIGH_LOW /\ (Len(heap.high) # Len(heap.close) \/ Len(heap.low) # Len(heap.close))

\* C15: an indicator function called with an empty sequence, or with high, low
\* and close of different lengths, ends in InvalidInput and returns no result
C15_InvalidInputRejected ==
    (IndicatorReturned /\ CallInvalid) => raised = "InvalidInput"

\* the close of row t, and whether the period deltas that end at row t hold no fall
ClosePrice(t) == At(heap.close, t)
NoLoss(t, period) == \A j \in (t - period + 1) .. t : ~Lt(ClosePrice(j), ClosePrice(j - 1))

\* C17: calculate_rsi returns an undefined value at every row that has fewer
\* than period price deltas behind it or whose window holds no loss, and it
\* does not raise
C17_RsiUndefinedOnZeroLoss ==
    (IndicatorReturned /\ Returned.fn = "calculate_rsi") =>
        /\ raised = "none"
        /\ \A t \in 0 .. (Len(heap.close) - 1) :
              (t < Returned.period \/ NoLoss(t, Returned.period)) => IsNaN(At(Returned.value, t))

-----------------------------------------------------------------------------
(* download_hourly_data_chunked: src/data/download_forex_data.py:125-165   *)

MaxRunDay == 150
\* the time of day of the run: midnight, or later in the day
RunHours == {0, 12}

ChunkInit ==
    /\ pc = "while"
    /\ \E day \in 1 .. MaxRunDay, hour \in RunHours : end_date = <<day, hour>>
    /\ current_end = end_date
    /\ current_start = start_date
    /\ chunks_downloaded = 0
    /\ requests = <<>>
    /\ heap = <<>>
    /\ df = 0
    /\ horizon = DEFAULT_HORIZON
    /\ raised = "none"
    /\ tfi = 1
    /\ pri = 1
    /\ results = <<>>
    /\ log = <<>>
    /\ files = NoFiles
    /\ outputs = <<>>

\* one pass of the loop body around the call of yf.download
ChunkStart == LaterOf(MinusDays(current_end, max_days), start_date)
Request == <<strftime(ChunkStart), strftime(current_end)>>
Chunk ==
    /\ pc = "while"
    /\ Later(current_end, start_date)
    /\ current_start' = ChunkStart
    /\ requests' = Append(requests, Request)
    /\ current_end' = MinusDays(ChunkStart, 1)
    /\ UNCHANGED <<pc, heap, df, horizon, raised, tfi, pri, results, files, outputs, end_date>>

\* yf.download returns rows
ChunkDownloaded ==
    /\ Request[1] < Request[2]
    /\ Chunk
    /\ chunks_downloaded' = chunks_downloaded + 1
    /\ UNCHANGED log

\* yf.download returns no row
ChunkEmpty ==
    /\ Chunk
    /\ UNCHANGED <<chunks_downloaded, log>>

\* yf.download raises
ChunkFails ==
    /\ Chunk
    /\ log' = Append(log, <<"chunk_error", Request>>)
    /\ UNCHANGED chunks_downloaded

LoopExit ==
    /\ pc = "while"
    /\ ~Later(current_end, start_date)
    /\ pc' = "chunks_done"
    /\ UNCHANGED <<heap, df, horizon, raised, tfi, pri, results, log, files, outputs, download>>

ChunkNext == ChunkDownloaded \/ ChunkEmpty \/ ChunkFails \/ LoopExit

ChunkSpec == ChunkInit /\ [][ChunkNext]_vars
FairChunkSpec == ChunkSpec /\ WF_vars(ChunkNext)

-----------------------------------------------------------------------------
(* Properties of download_hourly_data_chunked                              *)

ChunksDone == pc = "chunks_done"
Requested(day) == \E i \in 1 .. Len(requests) : requests[i][1] <= day /\ day < requests[i][2]

\* the chunk loop ends, whatever the downloads do
ChunkLoopTerminates == <>ChunksDone

\* C18: when the chunk loop has ended, every calendar day from 2020-01-01 up to
\* the run date lies in a chunk that was requested
C18_ChunksCoverEveryDay ==
    ChunksDone => \A day \in 0 .. (strftime(end_date) - 1) : Requested(day)

====
